---- MODULE Spec2Model ----
(***************************************************************************)
(* GrassHopper (src/sketch.js, the themed revision at lines 252-751):      *)
(* a title screen, a forest scene with two layers of grass blades and a    *)
(* pool of insects, and a world map that switches the location theme.      *)
(*                                                                         *)
(* Units.  Positions and velocities of insects are integers in 1/100 px    *)
(* (gravity 0.25 px is 25, the hit box half sizes 20.28 px and 21.84 px    *)
(* are 2028 and 2184), and so are the grass line and a blade's baseY.      *)
(* Blade x coordinates, the pointer and the canvas are in whole px.  Blade *)
(* angles are fixed point, in 1/1000000 rad, and a product with a fraction *)
(* is truncated toward zero.                                               *)
(*                                                                         *)
(* Math.random() is the host's deterministic generator: the model reads    *)
(* it from RandomTape, a fixed stream of quarters k/4, at a cursor (rng)   *)
(* that every call advances; the starting cursor is the unknown seed.      *)
(***************************************************************************)
EXTENDS Integers, Sequences, FiniteSets, TLC

VARIABLES
    state,              \* "title", "forest", "map"          (sketch.js:287)
    currentLocation,    \* "forest", "meadow", "swamp"       (sketch.js:288)
    canvas,             \* [width, height] in px             (sketch.js:343)
    grassBackBlades,    \* the back layer of blades          (sketch.js:289)
    grassFrontBlades,   \* the front layer of blades         (sketch.js:290)
    bugs,               \* sequence of insects               (sketch.js:291)
    mouse,              \* [x, y] in px                      (sketch.js:292)
    inventory,          \* type -> count                     (sketch.js:278)
    titleActive,        \* titleScreen has class "active"
    mapActive,          \* worldMap has class "active"
    rng,                \* cursor of Math.random() in RandomTape
    drawLog,            \* what the last run of loop() did, in order
    raf,                \* the host's animation frame request for loop()
    lastOp,             \* history: the handler that ran last, and its input
    mapOpened,          \* history: the scene when the map was last opened
    steps               \* history: number of handlers run so far

vars == <<state, currentLocation, canvas, grassBackBlades, grassFrontBlades,
          bugs, mouse, inventory, titleActive, mapActive, rng, drawLog,
          raf, lastOp, mapOpened, steps>>

(***************************************************************************)
(* Bounds of the model                                                     *)
(***************************************************************************)
MaxSteps == 4
MaxFlight == 32
NumSizes == 2
NumSeeds == 2

(***************************************************************************)
(* Program constants                                                       *)
(***************************************************************************)
OFFSCREEN_BUFFER == 400
BUG_COUNT == 7
BACK_SPACING == 3
FRONT_SPACING == 2
INTERACT_RADIUS == 70
GRAVITY == 25
BUG_RADIUS == 12
RESET_DEPTH == 1800
SINK_MARGIN == 200
HALF_W == 2028
HALF_H == 2184
DRAW_SIZE == 3120

\* The numbers of the script are IEEE-754 doubles.  0.66, 0.65 and 0.70 are
\* not doubles, and neither are most vertical positions: what the double
\* exceeds the decimal value by is kept next to the decimal value, in units
\* of 2^-53 / 100 px.
\* 100 * (the double 0.66) - 66, in units of 2^-53
GRASS_RATIO_ERR == 28
\* size * 0.65 and size * 0.70 as computed for size = 12 * 2.6, over 20.28
\* and 21.84
HALF_W_ERR == 1024
HALF_H_ERR == -128

BUG_TYPES == <<"hopper", "beetle", "moth">>

BugTypeSet == {BUG_TYPES[i] : i \in 1..Len(BUG_TYPES)}

States == {"title", "forest", "map"}

(***************************************************************************)
(* Theme registry                                                          *)
(***************************************************************************)
BASE_THEME ==
    [sky |-> "#7bd2cb", ground |-> "#6c833b", trees |-> "#63732c",
     grassFront |-> "#286328", grassBack |-> "rgba(12, 60, 22, 0.98)"]

THEME_OVERRIDES ==
    [forest |-> <<>>,
     meadow |-> [sky |-> "#9fe7ff", ground |-> "#44b84a", trees |-> "#2b7a2f",
                 grassFront |-> "#35b135",
                 grassBack |-> "rgba(20, 95, 28, 0.95)",
                 bugs |-> [hopper |-> "#a6ff4d", beetle |-> "#4d2b1a",
                           moth |-> "#fff2cc"]],
     swamp  |-> [sky |-> "#7fb8a6", ground |-> "#2f6b3d", trees |-> "#143f2a",
                 grassFront |-> "#2a8a4a",
                 grassBack |-> "rgba(10, 35, 20, 0.98)",
                 bugs |-> [hopper |-> "#55ffb3", beetle |-> "#1a1a1a",
                           moth |-> "#bfffea"]]]

Locations == DOMAIN THEME_OVERRIDES

\* { ...a, ...b }: the fields of b over the fields of a
Spread(a, b) ==
    [k \in (DOMAIN a) \cup (DOMAIN b) |-> IF k \in DOMAIN b THEN b[k] ELSE a[k]]

\* getTheme() with currentLocation = loc.  For a name inherited from
\* Object.prototype o is a function or the prototype object: it has no own
\* enumerable property to spread and no bugs field, like the empty override.
getTheme(loc) ==
    LET o == IF loc \in DOMAIN THEME_OVERRIDES
             THEN THEME_OVERRIDES[loc] ELSE THEME_OVERRIDES.forest
        obugs == IF "bugs" \in DOMAIN o THEN o.bugs ELSE <<>>
        merged == Spread(BASE_THEME, o)
    IN  [k \in (DOMAIN merged) \cup {"bugs"} |->
            IF k = "bugs" THEN obugs ELSE merged[k]]

\* insects of one colour whatever the theme
BugColor_plain(loc, type) == "#fff"

\* theme.bugs[type] || "#fff"
BugColor(loc, type) ==
    LET tb == getTheme(loc).bugs
    IN  IF type \in DOMAIN tb THEN tb[type] ELSE "#fff"

(***************************************************************************)
(* Math.random()                                                           *)
(***************************************************************************)
RandomTape ==
    <<0, 2, 3, 1, 0, 1, 3, 2, 2, 0, 1, 3, 1, 2, 0, 3,
      3, 1, 2, 0, 2, 3, 0, 1, 1, 0, 3, 2, 0, 3, 1>>

\* the value k of the call at cursor r: Math.random() = k/4
Rand(r) == RandomTape[r]

\* the cursor after n more calls
Skip(r, n) == ((r - 1 + n) % Len(RandomTape)) + 1

(***************************************************************************)
(* Grass                                                                   *)
(***************************************************************************)
TruncDiv(a, b) == IF a >= 0 THEN a \div b ELSE -((-a) \div b)

(***************************************************************************)
(* Double arithmetic.  <<c, e>> stands for the real (c + e / 2^53) / 100:   *)
(* c in 1/100 px and e, far below 2^53, in units of 2^-53 / 100 px.        *)
(***************************************************************************)
\* a >= b and a > b for a = <<ac, ae>> and b = <<bc, be>>: the second parts
\* decide between equal first parts only
Geq(ac, ae, bc, be) == ac > bc \/ (ac = bc /\ ae >= be)

Gtr(ac, ae, bc, be) == ac > bc \/ (ac = bc /\ ae > be)

\* the exponent j of a positive a (2^j <= a < 2^(j+1)); -1 for every a < 1
Exponent(a) ==
    IF ~Geq(a[1], a[2], 100, 0) THEN -1
    ELSE CHOOSE j \in 0..11 : /\ Geq(a[1], a[2], 100 * 2^j, 0)
                              /\ ~Geq(a[1], a[2], 200 * 2^j, 0)

\* a positive a, a multiple of 2^-53, rounded to the 53 significant bits of
\* a double, ties to even.  With G = 2^(j+1) the spacing of the doubles of
\* exponent j in units of 2^-53 and N = a * 2^53, low is N modulo 2 G, found
\* from 100 N = c * 2^53 + e modulo 200 G (2^20 is 1 modulo 25).
RoundPositive(a) ==
    LET j == Exponent(a)
        G == 2^(j + 1)
        R == (8 * G * (((a[1] % 25) * ((2^((49 - j) % 20)) % 25)) % 25) + a[2])
                 % (200 * G)
        low == R \div 100
        r == low % G
        d == IF 2 * r < G \/ (2 * r = G /\ low < G) THEN -r ELSE G - r
    IN  IF j < 0 THEN a ELSE <<a[1], a[2] + 100 * d>>

\* the double that an operation whose exact result is a yields; a multiple
\* of 1/4 px is a double already
Double(a) ==
    IF a[2] = 0 /\ a[1] % 25 = 0 THEN a
    ELSE IF a[1] < 0 \/ (a[1] = 0 /\ a[2] < 0)
    THEN LET m == RoundPositive(<<-a[1], -a[2]>>) IN <<-m[1], -m[2]>>
    ELSE RoundPositive(a)

\* a + b in doubles
Plus(a, b) == Double(<<a[1] + b[1], a[2] + b[2]>>)

\* grassTopY(): canvas.height * GRASS_RATIO (0.66), in 1/100 px
grassTopY(cv) == cv.height * 66

\* grassTopY() as the double it is
GrassTop(cv) == Double(<<grassTopY(cv), cv.height * GRASS_RATIO_ERR>>)

BackOpts(theme) ==
    [color |-> theme.grassBack, stiffness |-> 8, damping |-> 90,
     interactStrength |-> 6000, maxBend |-> 380000, randomCalls |-> 1]

FrontOpts(theme) ==
    [color |-> theme.grassFront, stiffness |-> 15, damping |-> 85,
     interactStrength |-> 15000, maxBend |-> 550000, randomCalls |-> 2]

\* A layer is built wholesale by buildGrassLayer and its blades are never
\* added, removed or moved afterwards, so the array is stored as what the
\* loop gave every blade (count, spacing, baseY, opts) and bent: the
\* <<angle, targetAngle>> of the blades that are not at rest <<0, 0>>.
\* Blade(l, i) is element i - 1 of the array.
NoLayer ==
    [count |-> 0, spacing |-> 1, baseY |-> 0, opts |-> <<>>, bent |-> <<>>]

\* new GrassBlade(x, baseY, opts)
GrassBlade(x, baseY, opts) ==
    [x |-> x, baseY |-> baseY, angle |-> 0, targetAngle |-> 0,
     color |-> opts.color, stiffness |-> opts.stiffness,
     damping |-> opts.damping, interactStrength |-> opts.interactStrength,
     maxBend |-> opts.maxBend]

BladeX(spacing, i) == -OFFSCREEN_BUFFER + (i - 1) * spacing

Blade(l, i) ==
    LET g == GrassBlade(BladeX(l.spacing, i), l.baseY, l.opts)
    IN  IF i \in DOMAIN l.bent
        THEN [g EXCEPT !.angle = l.bent[i][1], !.targetAngle = l.bent[i][2]]
        ELSE g

Blades(l) == [i \in 1..l.count |-> Blade(l, i)]

\* number of iterations of: for (x = -BUFFER; x < width + BUFFER; x += spacing)
BladeCount(cv, spacing) ==
    (cv.width + 2 * OFFSCREEN_BUFFER + spacing - 1) \div spacing

buildGrassLayer(cv, spacing, opts) ==
    [count |-> BladeCount(cv, spacing), spacing |-> spacing,
     baseY |-> grassTopY(cv), opts |-> opts, bent |-> <<>>]

\* createGrass(): both layers, and the cursor after the blades' random
\* heights (every blade) and thicknesses (front blades only)
createGrass(cv, loc, r) ==
    LET theme == getTheme(loc)
        back == buildGrassLayer(cv, BACK_SPACING, BackOpts(theme))
        front == buildGrassLayer(cv, FRONT_SPACING, FrontOpts(theme))
    IN  [back |-> back, front |-> front,
         rng |-> Skip(r, back.count * back.opts.randomCalls
                         + front.count * front.opts.randomCalls)]

\* the blade of the first revision (sketch.js:52): no clamp
Clamp_none(v, m) == v

\* if (v > maxBend) v = maxBend; if (v < -maxBend) v = -maxBend;
Clamp(v, m) == IF v > m THEN m ELSE IF v < -m THEN -m ELSE v

\* an interact() that bends the blade wherever the pointer is
interact_anywhere(g, mx, my) ==
    [g EXCEPT !.targetAngle = Clamp((g.x - mx) * g.interactStrength, g.maxBend)]

\* GrassBlade.interact(mx, my)
interact(g, mx, my) ==
    LET dx == g.x - mx
        dy == g.baseY - my * 100
    IN  IF dx * dx * 10000 + dy * dy < INTERACT_RADIUS * INTERACT_RADIUS * 10000
        THEN [g EXCEPT !.targetAngle = Clamp(dx * g.interactStrength, g.maxBend)]
        ELSE g

\* GrassBlade.update()
update(g) ==
    [g EXCEPT
        !.angle = Clamp(g.angle + TruncDiv((g.targetAngle - g.angle) * g.stiffness, 100),
                        g.maxBend),
        !.targetAngle = TruncDiv(g.targetAngle * g.damping, 100)]

\* for (const g of layer) { g.interact(mouse.x, mouse.y); g.update(); }
\* only a blade that is bent or within reach of the pointer can change
Reach(l, mx) ==
    {i \in 1..l.count :
        (BladeX(l.spacing, i) - mx) * (BladeX(l.spacing, i) - mx)
            < INTERACT_RADIUS * INTERACT_RADIUS}

UpdateLayer(l, mx, my) ==
    LET cand == (DOMAIN l.bent) \cup Reach(l, mx)
        nb == [i \in cand |-> update(interact(Blade(l, i), mx, my))]
        keep == {i \in cand : nb[i].angle # 0 \/ nb[i].targetAngle # 0}
    IN  [l EXCEPT !.bent = [i \in keep |-> <<nb[i].angle, nb[i].targetAngle>>]]

(***************************************************************************)
(* Insects                                                                 *)
(***************************************************************************)
\* Bug.reset() on b with the cursor at r: four calls of Math.random()
BugReset(b, r, cv, loc) ==
    LET type == BUG_TYPES[((Rand(Skip(r, 3)) * Len(BUG_TYPES)) \div 4) + 1]
    IN  [b EXCEPT
            !.x = Rand(r) * cv.width * 25,
            !.y = grassTopY(cv) + RESET_DEPTH,
            !.yErr = Plus(GrassTop(cv), <<RESET_DEPTH, 0>>)[2],
            !.vx = (Rand(Skip(r, 1)) - 2) * 75,
            !.vy = -600 - Rand(Skip(r, 2)) * 100,
            !.radius = BUG_RADIUS,
            !.type = type,
            !.color = BugColor(loc, type)]

RESET_CALLS == 4

\* new Bug(): drawSize is not set until the first draw()
NewBug(r, cv, loc) ==
    BugReset([x |-> 0, y |-> 0, yErr |-> 0, vx |-> 0, vy |-> 0, radius |-> 0,
              type |-> "", color |-> "", drawSize |-> 0], r, cv, loc)

\* for (const b of bugs) b.reset()
ResetAll(bs, r, cv, loc) ==
    [bugs |-> [i \in 1..Len(bs) |->
                  BugReset(bs[i], Skip(r, RESET_CALLS * (i - 1)), cv, loc)],
     rng |-> Skip(r, RESET_CALLS * Len(bs))]

\* an update() that leaves the insect where it is
BugMoved_still(b) == b

\* this.y as the double it is.  x, vx and vy are multiples of 1/4 px (the
\* values of Math.random() are quarters) and so are exact.
Y(b) == <<b.y, b.yErr>>

\* Bug.update(): the insect and whether it was reset
BugMoved(b) ==
    [b EXCEPT !.vy = b.vy + GRAVITY, !.x = b.x + b.vx,
              !.y = b.y + b.vy + GRAVITY,
              !.yErr = Plus(Y(b), <<b.vy + GRAVITY, 0>>)[2]]

\* gt + 2 as the double it is
SinkLine(cv) == Plus(GrassTop(cv), <<SINK_MARGIN, 0>>)

Landed(m, cv) ==
    m.vy > 0 /\ Geq(m.y, m.yErr, grassTopY(cv) + SINK_MARGIN, SinkLine(cv)[2])

Drifted(m, cv) ==
    \/ m.x < -12000
    \/ m.x > cv.width * 100 + 12000
    \/ Gtr(-20000, 0, m.y, m.yErr)
    \/ Gtr(m.y, m.yErr, cv.height * 100 + 20000, 0)

BugUpdate(b, r, cv, loc) ==
    LET m == BugMoved(b)
    IN  IF Landed(m, cv) \/ Drifted(m, cv)
        THEN [bug |-> BugReset(m, r, cv, loc), rng |-> Skip(r, RESET_CALLS)]
        ELSE [bug |-> m, rng |-> r]

\* for (const b of bugs) b.update(): bugs 1..i updated, in order
RECURSIVE UpdateBugs(_, _, _, _, _)
UpdateBugs(bs, i, r, cv, loc) ==
    IF i = 0 THEN [bugs |-> bs, rng |-> r]
    ELSE LET before == UpdateBugs(bs, i - 1, r, cv, loc)
             u == BugUpdate(bs[i], before.rng, cv, loc)
         IN  [bugs |-> [before.bugs EXCEPT ![i] = u.bug], rng |-> u.rng]

\* Bug.draw(): records the draw size; nothing is painted below the grass line
Visible(b, cv) ==
    ~Gtr(b.y, b.yErr, grassTopY(cv) + SINK_MARGIN, SinkLine(cv)[2])

draw(b) == [b EXCEPT !.drawSize = DRAW_SIZE]

\* Bug.isClicked(mx, my), mx and my in px
isClicked(b, mx, my) ==
    /\ Geq(mx * 100, 0,
           b.x - HALF_W, Plus(<<b.x, 0>>, <<-HALF_W, -HALF_W_ERR>>)[2])
    /\ Geq(b.x + HALF_W, Plus(<<b.x, 0>>, <<HALF_W, HALF_W_ERR>>)[2],
           mx * 100, 0)
    /\ Geq(my * 100, 0,
           b.y - HALF_H, Plus(Y(b), <<-HALF_H, -HALF_H_ERR>>)[2])
    /\ Geq(b.y + HALF_H, Plus(Y(b), <<HALF_H, HALF_H_ERR>>)[2],
           my * 100, 0)

(***************************************************************************)
(* Navigation                                                              *)
(***************************************************************************)
\* the world: both grass layers, the pool and the cursor of Math.random()
World(back, front, bs, r) == [back |-> back, front |-> front, bugs |-> bs, rng |-> r]

\* for (let i = 0; i < 7; i++) bugs.push(new Bug())
SpawnBugs(r, cv, loc) ==
    [bugs |-> [i \in 1..BUG_COUNT |-> NewBug(Skip(r, RESET_CALLS * (i - 1)), cv, loc)],
     rng |-> Skip(r, RESET_CALLS * BUG_COUNT)]

\* the showForest() of the revision at sketch.js:999: rebuild on every entry
ensureForestInitialized_rebuild(w, cv, loc) ==
    LET g == createGrass(cv, loc, w.rng)
        s == SpawnBugs(g.rng, cv, loc)
    IN  World(g.back, g.front, s.bugs, s.rng)

\* an ensureForestInitialized() without the bugs.length === 0 guard
ensureForestInitialized_respawn(w, cv, loc) ==
    LET g == IF w.front.count = 0
             THEN createGrass(cv, loc, w.rng)
             ELSE [back |-> w.back, front |-> w.front, rng |-> w.rng]
        s == SpawnBugs(g.rng, cv, loc)
    IN  World(g.back, g.front, w.bugs \o s.bugs, s.rng)

ensureForestInitialized(w, cv, loc) ==
    LET g == IF w.front.count = 0
             THEN createGrass(cv, loc, w.rng)
             ELSE [back |-> w.back, front |-> w.front, rng |-> w.rng]
        s == IF Len(w.bugs) = 0
             THEN SpawnBugs(g.rng, cv, loc)
             ELSE [bugs |-> w.bugs, rng |-> g.rng]
    IN  World(g.back, g.front, s.bugs, s.rng)

\* the part of createGrass + reset of every bug shared by resize and setLocation
Rebuild(w, cv, loc) ==
    LET g == createGrass(cv, loc, w.rng)
        s == ResetAll(w.bugs, g.rng, cv, loc)
    IN  World(g.back, g.front, s.bugs, s.rng)

\* the property names that THEME_OVERRIDES, an object literal, inherits from
\* Object.prototype: reading one yields a function (or, for __proto__, the
\* prototype object), which is truthy
ObjectPrototype ==
    {"constructor", "hasOwnProperty", "isPrototypeOf", "propertyIsEnumerable",
     "toLocaleString", "toString", "valueOf", "__proto__", "__defineGetter__",
     "__defineSetter__", "__lookupGetter__", "__lookupSetter__"}

\* THEME_OVERRIDES[key] read as a condition: an own or an inherited property
Truthy(key) == key \in (DOMAIN THEME_OVERRIDES) \cup ObjectPrototype

\* setLocation(loc): the key after `if (!THEME_OVERRIDES[loc]) loc = "forest"`
ValidLocation(key) == IF Truthy(key) THEN key ELSE "forest"

\* a setLocation() that only stores the key
setLocation_storeOnly(w, st, cv, loc) == w

\* setLocation(loc): the world after it, in navigation state st
setLocation(w, st, cv, loc) ==
    IF st = "forest" THEN Rebuild(w, cv, loc) ELSE w

\* the resize() of the revision in unnamed/part_000: the canvas only
resize_canvasOnly(w, st, cv, loc) == w

\* resize(): the world after it, in navigation state st
resize(w, st, cv, loc) ==
    IF st = "forest" THEN Rebuild(w, cv, loc) ELSE w

Now == World(grassBackBlades, grassFrontBlades, bugs, rng)

SetWorld(w) ==
    /\ grassBackBlades' = w.back
    /\ grassFrontBlades' = w.front
    /\ bugs' = w.bugs
    /\ rng' = w.rng

(***************************************************************************)
(* Inputs                                                                  *)
(***************************************************************************)
Sizes == {[width |-> 120 * i, height |-> 50 * i] : i \in 1..NumSizes}

\* the data-area values tried: the three locations, a name defined nowhere
\* and a name inherited from Object.prototype
Keys == Locations \cup {"desert", "toString"}

MousePoints(cv) == {<<0, 0>>, <<cv.width \div 2, grassTopY(cv) \div 100>>}

\* at the depth where a reset insect waits, just above the grass line (where
\* only an insect out of the grass is in reach), and in the empty sky
ClickPoints(cv) ==
    {<<0, grassTopY(cv) \div 100 + 18>>,
     <<cv.width \div 2, grassTopY(cv) \div 100 + 18>>,
     <<0, grassTopY(cv) \div 100 - 20>>,
     <<cv.width \div 2, grassTopY(cv) \div 100 - 20>>,
     <<cv.width - 1, 0>>}

\* the record kept of a handler's run: the navigation state and the canvas
\* it started from, its input and, for a mousedown, the insect it captured
\* (0 for none) and the insects whose hit region held the point
Op(name, from, arg, hit, hits) ==
    [op |-> name, from |-> from, old |-> canvas, arg |-> arg, hit |-> hit,
     hits |-> hits]

\* the request left by the last line of the script, loop(): that first run
\* found the state title, did nothing and asked for the next frame
Booted == [pending |-> TRUE, id |-> 0]

(***************************************************************************)
(* Initial state: the script has run to the end (resize() once, in title). *)
(* The page shows the title overlay and hides the map overlay at startup.  *)
(***************************************************************************)
Init ==
    /\ state = "title"
    /\ currentLocation = "forest"
    /\ canvas \in Sizes
    /\ grassBackBlades = NoLayer
    /\ grassFrontBlades = NoLayer
    /\ bugs = <<>>
    /\ mouse = [x |-> 0, y |-> 0]
    /\ inventory = [t \in BugTypeSet |-> 0]
    /\ titleActive = TRUE
    /\ mapActive = FALSE
    /\ rng \in 1..NumSeeds
    /\ drawLog = <<>>
    /\ raf = Booted
    /\ lastOp = Op("init", "title", <<>>, 0, {})
    /\ mapOpened = <<>>
    /\ steps = 0

(***************************************************************************)
(* Handlers                                                                *)
(***************************************************************************)
\* the navigation state and the two overlays' "active" class
Nav == [state |-> state, titleActive |-> titleActive, mapActive |-> mapActive]

SetNav(n) ==
    /\ state' = n.state
    /\ titleActive' = n.titleActive
    /\ mapActive' = n.mapActive

\* showForest(), before ensureForestInitialized()
showForest(n) == [state |-> "forest", titleActive |-> FALSE, mapActive |-> FALSE]

\* a showMap() that forgets the overlay
showMap_stateOnly(n) == [n EXCEPT !.state = "map"]

\* showMap()
showMap(n) == [n EXCEPT !.state = "map", !.mapActive = TRUE]

\* a hideMap() that goes back to the title screen
hideMap_toTitle(n) == [state |-> "title", titleActive |-> TRUE, mapActive |-> FALSE]

\* hideMap()
hideMap(n) == showForest([n EXCEPT !.mapActive = FALSE])

\* a globe button that opens the map from any screen
globeClick_always(n) == showMap(n)

\* the globe button's click handler
globeClick(n) == IF n.state = "forest" THEN showMap(n) ELSE n

\* what the map remembers of the scene at the moment it is opened (history)
Scene == [back |-> grassBackBlades, front |-> grassFrontBlades, bugs |-> bugs,
          canvas |-> canvas, location |-> currentLocation]

\* startBtn click
Start ==
    /\ SetNav(showForest(Nav))
    /\ \E w \in {ensureForestInitialized(Now, canvas, currentLocation)} : SetWorld(w)
    /\ UNCHANGED <<currentLocation, canvas, mouse, inventory, drawLog, mapOpened, raf>>
    /\ lastOp' = Op("start", state, <<>>, 0, {})

\* globeBtn click
OpenMap ==
    /\ SetNav(globeClick(Nav))
    /\ mapOpened' = IF state' = "map" /\ state # "map" THEN Scene ELSE mapOpened
    /\ UNCHANGED <<currentLocation, canvas, grassBackBlades, grassFrontBlades,
                   bugs, mouse, inventory, rng, drawLog, raf>>
    /\ lastOp' = Op("openMap", state, <<>>, 0, {})

\* click on a .mapButtons button whose data-area is key:
\* setLocation(btn.dataset.area); hideMap();
SelectLocation(key) ==
    /\ currentLocation' = ValidLocation(key)
    /\ SetNav(hideMap(Nav))
    /\ \E w \in {setLocation(Now, state, canvas, currentLocation')} :
          \E w2 \in {ensureForestInitialized(w, canvas, currentLocation')} : SetWorld(w2)
    /\ UNCHANGED <<canvas, mouse, inventory, drawLog, mapOpened, raf>>
    /\ lastOp' = Op("select", state, key, 0, {})

\* window resize to size sz
Resize(sz) ==
    /\ canvas' = sz
    /\ \E w \in {resize(Now, state, sz, currentLocation)} : SetWorld(w)
    /\ UNCHANGED <<state, currentLocation, mouse, inventory, titleActive,
                   mapActive, drawLog, mapOpened, raf>>
    /\ lastOp' = Op("resize", state, sz, 0, {})

\* canvas mousemove
MouseMove(p) ==
    /\ mouse' = [x |-> p[1], y |-> p[2]]
    /\ UNCHANGED <<state, currentLocation, canvas, grassBackBlades,
                   grassFrontBlades, bugs, inventory, titleActive, mapActive, rng,
                   drawLog, mapOpened, raf>>
    /\ lastOp' = Op("mousemove", state, p, 0, {})

\* the indices of the insects whose hit region holds (mx, my)
Hits(bs, mx, my) == {i \in 1..Len(bs) : isClicked(bs[i], mx, my)}

\* a loop that runs from the first insect up
Captured_firstIndex(bs, mx, my) ==
    LET h == Hits(bs, mx, my)
    IN  IF h = {} THEN 0 ELSE CHOOSE i \in h : \A j \in h : i <= j

\* for (i = bugs.length - 1; i >= 0; i--) if (bugs[i].isClicked(..)) {..; break}
\* the index (from 1) of the captured insect, 0 when none
Captured(bs, mx, my) ==
    LET h == Hits(bs, mx, my)
    IN  IF h = {} THEN 0 ELSE CHOOSE i \in h : \A j \in h : j <= i

\* a mousedown handler without the guard on the navigation state
Collectable_always(st) == TRUE

\* if (state !== "forest") return;
Collectable(st) == st = "forest"

\* a capture that resets the insect without counting it
collect_uncounted(inv, type) == inv

\* inventory[bugs[i].type]++
collect(inv, type) == [inv EXCEPT ![type] = @ + 1]

\* canvas mousedown at p, in canvas coordinates
MouseDown(p) ==
    /\ LET c == IF Collectable(state) THEN Captured(bugs, p[1], p[2]) ELSE 0
       IN  /\ IF c = 0
              THEN UNCHANGED <<inventory, bugs, rng>>
              ELSE /\ inventory' = collect(inventory, bugs[c].type)
                   /\ bugs' = [bugs EXCEPT
                                 ![c] = BugReset(bugs[c], rng, canvas, currentLocation)]
                   /\ rng' = Skip(rng, RESET_CALLS)
           /\ lastOp' = Op("mousedown", state, p, c, Hits(bugs, p[1], p[2]))
    /\ UNCHANGED <<state, currentLocation, canvas, grassBackBlades,
                   grassFrontBlades, mouse, titleActive, mapActive, drawLog,
                   raf, mapOpened>>

\* a loop() that updates and draws the scene behind the overlays too
Simulating_always(st) == TRUE

\* loop(): if (state === "forest")
Simulating(st) == st = "forest"

\* one entry of the log of loop(): a call (one of drawBackground,
\* drawGrassOccluder) or a for loop over n elements of a layer or the pool
Ev(op, what, n) == [op |-> op, what |-> what, n |-> n]

\* the loop() of the first revision (sketch.js:230): every blade, then every
\* insect, is updated and drawn in one pass (one layer of grass, no occluder)
loop_interleaved(st, nb, nf, nbugs) ==
    IF st = "forest"
    THEN <<Ev("draw", "background", 1),
           Ev("update", "back", nb), Ev("draw", "back", nb),
           Ev("update", "bugs", nbugs), Ev("draw", "bugs", nbugs)>>
    ELSE <<>>

\* a loop() that draws the insects after the front layer
loop_bugsOnTop(st, nb, nf, nbugs) ==
    IF st = "forest"
    THEN <<Ev("draw", "background", 1),
           Ev("update", "back", nb), Ev("update", "front", nf),
           Ev("update", "bugs", nbugs),
           Ev("draw", "back", nb), Ev("draw", "occluder", 1),
           Ev("draw", "front", nf), Ev("draw", "bugs", nbugs)>>
    ELSE <<>>

\* loop(): the statements it runs in navigation state st, in order, over
\* nb back blades, nf front blades and nbugs insects
loop(st, nb, nf, nbugs) ==
    IF Simulating(st)
    THEN <<Ev("draw", "background", 1),
           Ev("update", "back", nb), Ev("update", "front", nf),
           Ev("update", "bugs", nbugs),
           Ev("draw", "back", nb), Ev("draw", "bugs", nbugs),
           Ev("draw", "occluder", 1), Ev("draw", "front", nf)>>
    ELSE <<>>

\* a loop() that asks for the next frame only while the scene is shown
requestAnimationFrame_inForest(st, q) ==
    IF st = "forest" THEN [pending |-> TRUE, id |-> 1 - q.id]
    ELSE [q EXCEPT !.pending = FALSE]

\* requestAnimationFrame(loop), the last statement of loop() in every
\* navigation state: the request q that started this run is replaced by a
\* new one (the host numbers its requests; the number is kept modulo 2)
requestAnimationFrame(st, q) == [pending |-> TRUE, id |-> 1 - q.id]

\* loop(): one animation frame, run by the host when a request is pending
Frame ==
    /\ raf.pending
    /\ raf' = requestAnimationFrame(state, raf)
    /\ drawLog' = loop(state, grassBackBlades.count, grassFrontBlades.count,
                       Len(bugs))
    /\ IF Simulating(state)
       THEN \E u \in {UpdateBugs(bugs, Len(bugs), rng, canvas, currentLocation)} :
                /\ grassBackBlades' = UpdateLayer(grassBackBlades, mouse.x, mouse.y)
                /\ grassFrontBlades' = UpdateLayer(grassFrontBlades, mouse.x, mouse.y)
                /\ bugs' = [i \in 1..Len(u.bugs) |-> draw(u.bugs[i])]
                /\ rng' = u.rng
       ELSE UNCHANGED <<grassBackBlades, grassFrontBlades, bugs, rng>>
    /\ UNCHANGED <<state, currentLocation, canvas, mouse, inventory,
                   titleActive, mapActive, mapOpened>>
    /\ lastOp' = Op("frame", state, <<>>, 0, {})

\* one more handler is run, of at most max
Count(max) == steps < max /\ steps' = steps + 1

\* any handler may run next, up to MaxSteps handlers in all
Next ==
    \/ Count(MaxSteps) /\ Start
    \/ Count(MaxSteps) /\ OpenMap
    \/ \E key \in Keys : Count(MaxSteps) /\ SelectLocation(key)
    \/ \E sz \in Sizes : Count(MaxSteps) /\ Resize(sz)
    \/ \E p \in MousePoints(canvas) : Count(MaxSteps) /\ MouseMove(p)
    \/ \E p \in ClickPoints(canvas) : Count(MaxSteps) /\ MouseDown(p)
    \/ Count(MaxSteps) /\ Frame

Spec == Init /\ [][Next]_vars

(***************************************************************************)
(* The flight of the insects: the scene has just been started on a tall    *)
(* viewport, and the frames run on while the player visits the map once,   *)
(* where the window may be resized and a location chosen.  Frames that run *)
(* while the map is open do nothing and are left out.                      *)
(***************************************************************************)
FlightSizes == {[width |-> 240, height |-> 400], [width |-> 240, height |-> 324]}

FlightKeys == {"forest", "swamp"}

\* the state Start leaves when clicked in title on a viewport of 240 x 400
InitFlight ==
    /\ state = "forest"
    /\ currentLocation = "forest"
    /\ canvas = [width |-> 240, height |-> 400]
    /\ \E r \in 1..NumSeeds :
          \E w \in {ensureForestInitialized(World(NoLayer, NoLayer, <<>>, r),
                                            [width |-> 240, height |-> 400],
                                            "forest")} :
              /\ grassBackBlades = w.back
              /\ grassFrontBlades = w.front
              /\ bugs = w.bugs
              /\ rng = w.rng
    /\ mouse = [x |-> 0, y |-> 0]
    /\ inventory = [t \in BugTypeSet |-> 0]
    /\ titleActive = FALSE
    /\ mapActive = FALSE
    /\ drawLog = <<>>
    /\ raf = Booted
    /\ lastOp = [op |-> "start", from |-> "title",
                 old |-> [width |-> 240, height |-> 400], arg |-> <<>>,
                 hit |-> 0, hits |-> {}]
    /\ mapOpened = <<>>
    /\ steps = 1

FlightNext ==
    \/ Count(MaxFlight) /\ state = "forest" /\ Frame
    \/ Count(MaxFlight) /\ state = "forest" /\ mapOpened = <<>> /\ OpenMap
    \/ \E sz \in FlightSizes :
          Count(MaxFlight) /\ state = "map" /\ sz # canvas /\ Resize(sz)
    \/ \E key \in FlightKeys :
          Count(MaxFlight) /\ state = "map" /\ SelectLocation(key)

SpecFlight == InitFlight /\ [][FlightNext]_vars

(***************************************************************************)
(* The animation loop: the host runs loop() whenever a frame request is    *)
(* pending, for ever, while the player starts the game from the title      *)
(* screen and then opens the map, each at any moment or never.             *)
(***************************************************************************)
InitLoop ==
    /\ Init
    /\ canvas = [width |-> 120, height |-> 50]
    /\ rng = 1

\* the host runs the callback of a pending frame request
HostFrame == Frame /\ UNCHANGED steps

LoopNext ==
    \/ HostFrame
    \/ Count(MaxSteps) /\ state = "title" /\ Start
    \/ Count(MaxSteps) /\ state = "forest" /\ OpenMap

\* what a run of loop() does to the host's frame request; HostFrame is the
\* only step that changes raf, and it can be taken whenever a request is
\* pending
Served == raf.pending /\ raf' = requestAnimationFrame(state, raf)

\* the host keeps serving frame requests: a pending request is run
SpecLoop == InitLoop /\ [][LoopNext]_vars /\ WF_raf(Served)

(***************************************************************************)
(* Properties                                                              *)
(***************************************************************************)
BackBladeSet == 1..grassBackBlades.count
FrontBladeSet == 1..grassFrontBlades.count
BugSet == 1..Len(bugs)

\* C1: the navigation state is always one of title, forest, map; it starts
\* as title, and once it is not title no handler makes it title again.
C1_TitleOnlyAtStartup ==
    /\ state = "title"
    /\ [][state' \in States /\ (state # "title" => state' # "title")]_vars

\* C1 witness: the scene left the title, opened the map and came back
C1_Witness ==
    state = "forest" /\ lastOp.op = "select" /\ lastOp.from = "map" /\ steps >= 3

\* C2: after a select-location(L) taken in the map state, for a recognized L,
\* the state is forest, the current location is L and every blade of both
\* layers has the grass colour of theme L.
C2_SelectFromMapAppliesTheme ==
    (lastOp.op = "select" /\ lastOp.from = "map" /\ lastOp.arg \in Locations)
    => /\ state = "forest"
       /\ currentLocation = lastOp.arg
       /\ \A i \in BackBladeSet :
             Blade(grassBackBlades, i).color = getTheme(lastOp.arg).grassBack
       /\ \A i \in FrontBladeSet :
             Blade(grassFrontBlades, i).color = getTheme(lastOp.arg).grassFront

\* the blades of layer l stand at every spacing-th x of [-400, width + 400)
\* and all on the grass line 0.66 * height of the current canvas
LayerFitsCanvas(l, spacing) ==
    /\ {BladeX(l.spacing, i) : i \in 1..l.count}
         = {x \in (-OFFSCREEN_BUFFER)..(canvas.width + OFFSCREEN_BUFFER - 1) :
               (x + OFFSCREEN_BUFFER) % spacing = 0}
    /\ \A i \in 1..l.count : Blade(l, i).baseY = 66 * canvas.height

\* C3: whenever the state is forest, both layers are built for the current
\* viewport, also when the viewport was resized while the map was open.
C3_ForestGrassFitsViewport ==
    state = "forest"
    => /\ LayerFitsCanvas(grassBackBlades, BACK_SPACING)
       /\ LayerFitsCanvas(grassFrontBlades, FRONT_SPACING)

\* C4: re-entering forest from map when neither the viewport size nor the
\* location changed leaves both blade arrays and the insect pool exactly as
\* they were when the map was opened.
C4_ReentryKeepsScene ==
    (/\ state = "forest"
     /\ lastOp.from = "map"
     /\ canvas = mapOpened.canvas
     /\ currentLocation = mapOpened.location)
    => /\ grassBackBlades = mapOpened.back
       /\ grassFrontBlades = mapOpened.front
       /\ bugs = mapOpened.bugs

\* C4 witness: back from the map, same viewport and location, with blades
\* bent by an earlier frame
C4_Witness ==
    /\ state = "forest"
    /\ lastOp.from = "map"
    /\ lastOp.op = "select"
    /\ canvas = mapOpened.canvas
    /\ currentLocation = mapOpened.location
    /\ Len(bugs) = BUG_COUNT
    /\ DOMAIN grassFrontBlades.bent # {}

\* a layer as buildGrassLayer leaves it: no blade bent, every blade of colour c
FreshLayer(l, c) ==
    \A i \in 1..l.count :
        LET g == Blade(l, i)
        IN  g.color = c /\ g.angle = 0 /\ g.targetAngle = 0

\* an insect as reset() leaves it on canvas cv under the theme of loc
FreshBug(b, cv, loc) ==
    /\ b.x >= 0
    /\ b.x < cv.width * 100
    /\ b.y = 66 * cv.height + 1800
    /\ b.vy < 0
    /\ b.type \in BugTypeSet
    /\ b.color = IF b.type \in DOMAIN getTheme(loc).bugs
                 THEN getTheme(loc).bugs[b.type] ELSE "#fff"

\* C5: setLocation(L) in the forest state rebuilds both layers in theme L's
\* colours and resets every insect, so that every blade colour and every
\* insect colour is of theme L's palette, and the state stays forest.
C5_SetLocationInForest ==
    (lastOp.op = "select" /\ lastOp.from = "forest")
    => LET L == lastOp.arg
       IN  /\ state = "forest"
           /\ L \in Locations => currentLocation = L
           /\ FreshLayer(grassBackBlades, getTheme(L).grassBack)
           /\ FreshLayer(grassFrontBlades, getTheme(L).grassFront)
           /\ \A i \in BugSet : FreshBug(bugs[i], canvas, L)

\* C5 witness: a location other than the current one was selected in forest
C5_Witness ==
    /\ lastOp.op = "select"
    /\ lastOp.from = "forest"
    /\ lastOp.arg = "swamp"
    /\ Len(bugs) = BUG_COUNT
    /\ grassFrontBlades.count > 0

ResizeStep == lastOp'.op = "resize" /\ steps' = steps + 1

\* C6: a resize in forest rebuilds both layers for the new size and resets
\* every insect into the new viewport; a resize in title or map changes the
\* canvas size only.
C6_Resize ==
    /\ [](lastOp.op = "resize" =>
            /\ canvas = lastOp.arg
            /\ lastOp.from = "forest" =>
                  /\ LayerFitsCanvas(grassBackBlades, BACK_SPACING)
                  /\ LayerFitsCanvas(grassFrontBlades, FRONT_SPACING)
                  /\ FreshLayer(grassBackBlades, getTheme(currentLocation).grassBack)
                  /\ FreshLayer(grassFrontBlades, getTheme(currentLocation).grassFront)
                  /\ Len(bugs) = 7
                  /\ \A i \in BugSet : FreshBug(bugs[i], canvas, currentLocation))
    /\ [][(ResizeStep /\ state # "forest") =>
             UNCHANGED <<grassBackBlades, grassFrontBlades, bugs, state,
                         currentLocation, inventory, titleActive, mapActive>>
       ]_vars

\* C6 witness: the viewport changed size in the forest state
C6_Witness ==
    /\ lastOp.op = "resize"
    /\ lastOp.from = "forest"
    /\ lastOp.old # canvas
    /\ Len(bugs) = BUG_COUNT

\* C7: the pool is empty before the first entry into forest and holds
\* exactly 7 insects in every state after it.
C7_PoolSize ==
    /\ state = "title" => Len(bugs) = 0
    /\ state # "title" => Len(bugs) = 7

\* C7 witness: after a capture and a round trip through the map
C7_Witness ==
    /\ state = "forest"
    /\ lastOp.from = "map"
    /\ Len(bugs) = 7
    /\ \E t \in BugTypeSet : inventory[t] > 0

MouseDownStep == lastOp'.op = "mousedown" /\ steps' = steps + 1

\* the insects whose hit region holds the point p
HitBy(p) ==
    {i \in BugSet :
        /\ p[1] * 100 >= bugs[i].x - HALF_W /\ p[1] * 100 <= bugs[i].x + HALF_W
        /\ p[2] * 100 >= bugs[i].y - HALF_H /\ p[2] * 100 <= bugs[i].y + HALF_H}

\* the insects that draw() paints: not below the grass line + 2
Shown == {i \in BugSet : bugs[i].y <= 66 * canvas.height + 200}

\* C8: a pointer-down in forest captures at most one insect, the one of the
\* highest pool index among those hit: only its type count goes up, only it
\* is reset, and every other insect is left as it was.
C8_OneCapturePerClick ==
    [][(MouseDownStep /\ state = "forest" /\ HitBy(lastOp'.arg) # {}) =>
          LET h == HitBy(lastOp'.arg)
              c == CHOOSE i \in h : \A j \in h : j <= i
          IN  /\ inventory' = [inventory EXCEPT ![bugs[c].type] = @ + 1]
              /\ Len(bugs') = Len(bugs)
              /\ bugs'[c].y = 66 * canvas.height + 1800
              /\ bugs'[c].vy < 0
              /\ \A j \in BugSet \ {c} : bugs'[j] = bugs[j]
       ]_vars

\* C8 witness: the click point lay in the hit region of several insects
C8_Witness ==
    /\ lastOp.op = "mousedown"
    /\ lastOp.from = "forest"
    /\ Cardinality(lastOp.hits) >= 2
    /\ lastOp.hit # 0

\* C9: a click inside exactly one visible insect's hit region adds exactly 1
\* to that insect's type count and leaves the other counts alone; a click
\* inside no insect's hit region leaves all counts and all insects alone.
C9_ClickOneVisibleInsect ==
    [][(MouseDownStep /\ state = "forest") =>
          LET h == HitBy(lastOp'.arg)
              v == h \cap Shown
          IN  /\ Cardinality(v) = 1 =>
                    \A i \in v :
                        inventory' = [inventory EXCEPT ![bugs[i].type] = @ + 1]
              /\ h = {} => UNCHANGED <<inventory, bugs>>
       ]_vars

\* C10: a pointer-down captures only an insect that draw() would paint; an
\* insect hidden in the grass is never captured.
C10_OnlyVisibleCaptured ==
    [][(MouseDownStep /\ state = "forest") =>
          /\ \A i \in BugSet : bugs'[i] # bugs[i] => i \in Shown
          /\ inventory' # inventory => lastOp'.hit \in Shown
       ]_vars

\* C11: a pointer-down received in title or map changes nothing: inventory,
\* every insect and the navigation state are as they were.
C11_PointerDownOutsideForest ==
    [][(MouseDownStep /\ state # "forest") =>
          UNCHANGED <<inventory, bugs, state, titleActive, mapActive,
                      currentLocation, grassBackBlades, grassFrontBlades>>
       ]_vars

\* C11 witness: a click in the map state on the spot where an insect waits
C11_Witness ==
    /\ lastOp.op = "mousedown"
    /\ lastOp.from = "map"
    /\ lastOp.hits # {}
    /\ Len(bugs) = BUG_COUNT

Total(inv) == inv["hopper"] + inv["beetle"] + inv["moth"]

\* C12: every inventory count is a non-negative integer that never
\* decreases, and the sum of the three counts is the number of pointer-down
\* events that captured an insect: it starts at 0 and a step adds exactly 1
\* to it when it is a capturing pointer-down, and nothing otherwise.
C12_InventoryCounts ==
    /\ \A t \in {"hopper", "beetle", "moth"} : inventory[t] = 0
    /\ [][/\ DOMAIN inventory' = {"hopper", "beetle", "moth"}
          /\ \A t \in {"hopper", "beetle", "moth"} :
                inventory'[t] \in Nat /\ inventory'[t] >= inventory[t]
          /\ Total(inventory') = Total(inventory)
                + (IF MouseDownStep /\ state = "forest" /\ HitBy(lastOp'.arg) # {}
                   THEN 1 ELSE 0)
       ]_vars

\* C12 witness: two captures, then a step that captured nothing
C12_Witness ==
    /\ Total(inventory) = 2
    /\ lastOp.hit = 0
    /\ steps = 4

Abs(v) == IF v < 0 THEN -v ELSE v

\* the blades of layer l that are not at rest
Bent(l) == DOMAIN l.bent

\* C13: for every blade of either layer, in every reachable state, angle and
\* targetAngle lie within [-maxBend, maxBend] of the blade's layer (0.38 rad
\* for the back layer, 0.55 rad for the front layer).
C13_BladeWithinMaxBend ==
    /\ \A i \in Bent(grassBackBlades) :
          /\ Abs(Blade(grassBackBlades, i).angle) <= 380000
          /\ Abs(Blade(grassBackBlades, i).targetAngle) <= 380000
    /\ \A i \in Bent(grassFrontBlades) :
          /\ Abs(Blade(grassFrontBlades, i).angle) <= 550000
          /\ Abs(Blade(grassFrontBlades, i).targetAngle) <= 550000

\* C13 witness: the pointer pushed a front blade past maxBend, so that the
\* clamp acted (the target is what update() leaves of 0.55: 0.55 * 0.85),
\* and a second frame has run on it
C13_Witness ==
    /\ lastOp.op = "frame"
    /\ \E i \in Bent(grassFrontBlades) :
          /\ Blade(grassFrontBlades, i).targetAngle = 467500
          /\ Blade(grassFrontBlades, i).angle > 150000

FrameStep == lastOp'.op = "frame" /\ steps' = steps + 1

\* the pointer is at least 70 px away from the base of blade i of layer l
OutOfReach(l, i) ==
    LET dx == (BladeX(l.spacing, i) - mouse.x) * 100
        dy == l.baseY - mouse.y * 100
    IN  dx * dx + dy * dy >= 7000 * 7000

\* update() of a frame in which the pointer does not touch the blade does not
\* make the blade's angle or target angle larger in magnitude
Settles(l, l2) ==
    \A i \in Bent(l) :
        OutOfReach(l, i) =>
            /\ Abs(Blade(l2, i).angle) <= Abs(Blade(l, i).angle)
            /\ Abs(Blade(l2, i).targetAngle) <= Abs(Blade(l, i).targetAngle)
            /\ Abs(Blade(l2, i).angle) <= l.opts.maxBend
            /\ Abs(Blade(l2, i).targetAngle) <= l.opts.maxBend

\* C14: with no further interaction, every update() leaves |angle| and
\* |targetAngle| no larger than before, and within maxBend.
C14_BladeSettlesMonotonically ==
    [][(FrameStep /\ state = "forest") =>
          /\ Settles(grassBackBlades, grassBackBlades')
          /\ Settles(grassFrontBlades, grassFrontBlades')
       ]_vars

\* the blades of layer l that stand within 80 px of the pointer horizontally
\* or are not at rest; every other blade is further than 70 px away, at rest
Near(l) ==
    Bent(l) \cup {i \in 1..l.count : Abs(BladeX(l.spacing, i) - mouse.x) <= 80}

\* what a frame makes of blade i of layer l when interact() does as C15 says
Interacted(l, l2) ==
    \A i \in Near(l) :
        LET g == Blade(l, i)
            dx == g.x - mouse.x
            push == dx * g.interactStrength
            t == IF OutOfReach(l, i) THEN g.targetAngle
                 ELSE IF push > g.maxBend THEN g.maxBend
                 ELSE IF push < -g.maxBend THEN -g.maxBend
                 ELSE push
            a == g.angle + TruncDiv((t - g.angle) * g.stiffness, 100)
        IN  /\ Blade(l2, i).targetAngle = TruncDiv(t * g.damping, 100)
            /\ Blade(l2, i).angle
                 = IF a > g.maxBend THEN g.maxBend
                   ELSE IF a < -g.maxBend THEN -g.maxBend ELSE a

\* C15: interact() leaves targetAngle and angle of a blade whose base is 70 px
\* or more from the pointer as they are, and sets the targetAngle of a nearer
\* blade to (x - pointerX) * interactStrength clamped to [-maxBend, maxBend];
\* seen through the frame, whose update() then acts on that target.
C15_InteractOnlyWithinReach ==
    [][(FrameStep /\ state = "forest") =>
          /\ Interacted(grassBackBlades, grassBackBlades')
          /\ Interacted(grassFrontBlades, grassFrontBlades')
       ]_vars

\* C15 witness: after a frame, a front blade less than 70 px from the pointer
\* horizontally but further than 70 px from it is at rest beside bent ones
C15_Witness ==
    /\ lastOp.op = "frame"
    /\ lastOp.from = "forest"
    /\ Bent(grassFrontBlades) # {}
    /\ \E i \in 1..grassFrontBlades.count :
          /\ i \notin Bent(grassFrontBlades)
          /\ Abs(BladeX(grassFrontBlades.spacing, i) - mouse.x) < 70
          /\ OutOfReach(grassFrontBlades, i)

\* C18: a key passed to setLocation that is not forest, meadow or swamp makes
\* the current location forest; so the current location is always one of the
\* three and getTheme() yields a palette that defines sky, ground, trees,
\* grassFront and grassBack.
C18_UnknownKeyFallsBack ==
    /\ (lastOp.op = "select" /\ lastOp.arg \notin {"forest", "meadow", "swamp"})
          => currentLocation = "forest"
    /\ currentLocation \in {"forest", "meadow", "swamp"}
    /\ {"sky", "ground", "trees", "grassFront", "grassBack"}
          \subseteq DOMAIN getTheme(currentLocation)

\* the draw entries of the log, in order
RECURSIVE Draws(_)
Draws(log) ==
    IF log = <<>> THEN <<>>
    ELSE IF Head(log).op = "draw" THEN <<Head(log)>> \o Draws(Tail(log))
    ELSE Draws(Tail(log))

\* C19: a frame run in forest draws, in this order, the background, all back
\* blades, all insects, the occluder strip and all front blades, so that no
\* insect is drawn after the occluder or a front blade; a frame run in title
\* or map draws nothing.
C19_DrawOrder ==
    lastOp.op = "frame" =>
        IF lastOp.from = "forest"
        THEN Draws(drawLog)
               = <<[op |-> "draw", what |-> "background", n |-> 1],
                   [op |-> "draw", what |-> "back", n |-> grassBackBlades.count],
                   [op |-> "draw", what |-> "bugs", n |-> Len(bugs)],
                   [op |-> "draw", what |-> "occluder", n |-> 1],
                   [op |-> "draw", what |-> "front", n |-> grassFrontBlades.count]>>
        ELSE Draws(drawLog) = <<>>

\* C19 witness: a frame in forest over both layers and the whole pool
C19_Witness ==
    /\ lastOp.op = "frame"
    /\ lastOp.from = "forest"
    /\ Len(bugs) = BUG_COUNT
    /\ grassFrontBlades.count > grassBackBlades.count
    /\ Len(Draws(drawLog)) = 5

\* the entries of the log that act on blades or insects
Physical(e) == e.what \in {"back", "front", "bugs"}

\* C20: within a frame every blade's interact() + update() and every insect's
\* update() happen before the first draw() of any blade or insect.
C20_UpdatesBeforeDraws ==
    (lastOp.op = "frame" /\ lastOp.from = "forest") =>
        /\ \A i, j \in 1..Len(drawLog) :
              (/\ Physical(drawLog[i]) /\ drawLog[i].op = "draw"
               /\ Physical(drawLog[j]) /\ drawLog[j].op = "update") => j < i
        /\ \E i \in 1..Len(drawLog) :
              drawLog[i] = [op |-> "update", what |-> "back",
                            n |-> grassBackBlades.count]
        /\ \E i \in 1..Len(drawLog) :
              drawLog[i] = [op |-> "update", what |-> "front",
                            n |-> grassFrontBlades.count]
        /\ \E i \in 1..Len(drawLog) :
              drawLog[i] = [op |-> "update", what |-> "bugs", n |-> Len(bugs)]

\* C20 witness: a frame that moved blades and insects before drawing them
C20_Witness ==
    /\ lastOp.op = "frame"
    /\ lastOp.from = "forest"
    /\ Bent(grassBackBlades) # {}
    /\ \E i \in BugSet : bugs[i].drawSize = DRAW_SIZE /\ bugs[i].vy > -600
    /\ \E i \in 1..Len(drawLog) : drawLog[i].op = "draw" /\ Physical(drawLog[i])

\* C17: an insect that is at or past the grass line and moving downward
\* (vy > 0) is reset by the next update(): it is put back at grass line + 18
\* with an upward velocity instead of moving on.
C17_ResetAtGrassLine ==
    [][(FrameStep /\ state = "forest") =>
          \A i \in BugSet :
              (bugs[i].y >= 66 * canvas.height /\ bugs[i].vy > 0)
              => /\ bugs'[i].y = 66 * canvas.height + 1800
                 /\ bugs'[i].vy < 0
       ]_vars

\* insect i of the pool after the step is new, or differs from what it was
\* by more than one move under gravity: reset() has run on it
WasReset(i) ==
    \/ i > Len(bugs)
    \/ /\ bugs'[i] # bugs[i]
       /\ ~(/\ bugs'[i].vy = bugs[i].vy + 25
            /\ bugs'[i].x = bugs[i].x + bugs[i].vx
            /\ bugs'[i].y = bugs[i].y + bugs[i].vy + 25
            /\ bugs'[i].type = bugs[i].type
            /\ bugs'[i].color = bugs[i].color)

\* the colour the theme of loc resolves for an insect type: the theme's entry
\* for the type, and white where the theme (as forest) lists none
Tint(loc, type) ==
    IF loc = "meadow"
    THEN [hopper |-> "#a6ff4d", beetle |-> "#4d2b1a", moth |-> "#fff2cc"][type]
    ELSE IF loc = "swamp"
    THEN [hopper |-> "#55ffb3", beetle |-> "#1a1a1a", moth |-> "#bfffea"][type]
    ELSE "#fff"

\* C16: after reset(), whichever handler called it, the insect's vertical
\* velocity is strictly negative, its type is one of hopper, beetle, moth,
\* and its colour is the one the active theme resolves for that type.
C16_ResetInsect ==
    [][\A i \in 1..Len(bugs') :
          WasReset(i) =>
              /\ bugs'[i].vy < 0
              /\ bugs'[i].type \in {"hopper", "beetle", "moth"}
              /\ bugs'[i].color = Tint(currentLocation', bugs'[i].type)
       ]_vars

\* C16 witness: an insect captured in the swamp has been reset
C16_Witness ==
    /\ lastOp.op = "mousedown"
    /\ lastOp.hit # 0
    /\ currentLocation = "swamp"
    /\ bugs[lastOp.hit].vy < 0
    /\ bugs[lastOp.hit].color \in {"#55ffb3", "#1a1a1a", "#bfffea"}

\* C23: loop() asks for the next frame at the end of every run, whatever the
\* navigation state, so that a request is always pending and, the host
\* serving its requests, frames run again and again for ever.
C23_LoopNeverStops ==
    /\ [](raf.pending)
    /\ []<>(raf.id = 0)
    /\ []<>(raf.id = 1)

\* C23 witness: a frame has run while the map was open, and asked for the next
C23_Witness ==
    /\ lastOp.op = "frame"
    /\ lastOp.from = "map"
    /\ raf.pending
    /\ raf.id = 1

OpenMapStep == lastOp'.op = "openMap" /\ steps' = steps + 1

\* C21: the globe action makes the state map only when the state is forest;
\* in title or map it leaves the navigation state, the overlays, the blades
\* and the insects as they are.
C21_GlobeOnlyInForest ==
    [][OpenMapStep =>
          IF state = "forest"
          THEN state' = "map" /\ mapActive'
          ELSE UNCHANGED <<state, titleActive, mapActive, grassBackBlades,
                           grassFrontBlades, bugs>>
       ]_vars

\* C21 witness: the globe was clicked while the map was already open, over
\* a scene whose blades are bent
C21_Witness ==
    /\ lastOp.op = "openMap"
    /\ lastOp.from = "map"
    /\ state = "map"
    /\ Len(bugs) = BUG_COUNT
    /\ Bent(grassFrontBlades) # {}

\* C22: the map overlay is shown exactly when the state is map, and the
\* title overlay exactly when the state is title.
C22_OverlaysFollowState ==
    /\ mapActive <=> state = "map"
    /\ titleActive <=> state = "title"

\* C22 witness: back in the forest after a visit to the map
C22_Witness ==
    /\ state = "forest"
    /\ lastOp.op = "select"
    /\ lastOp.from = "map"
    /\ ~mapActive
    /\ ~titleActive

\* C24: a frame run in title or map leaves every blade, every insect and the
\* inventory as they are.
C24_FrameOutsideForest ==
    [][(FrameStep /\ state # "forest") =>
          UNCHANGED <<grassBackBlades, grassFrontBlades, bugs, inventory, rng>>
       ]_vars

\* C24 witness: a frame has run in the map state over insects in flight and
\* bent blades
C24_Witness ==
    /\ lastOp.op = "frame"
    /\ lastOp.from = "map"
    /\ Bent(grassFrontBlades) # {}
    /\ \E i \in BugSet : bugs[i].y < 66 * canvas.height + 1800

\* insect i of the pool is reset by the step
Recycled(i) == i \in DOMAIN bugs /\ i \in DOMAIN bugs' /\ WasReset(i)

\* C25: while frames keep running in the forest state on a fixed viewport,
\* every insect is reset again and again: none stays airborne for ever.
C25_EveryInsectRecycled ==
    \A i \in 1..BUG_COUNT : ([]<>(state # "forest")) \/ ([]<><<Recycled(i)>>_vars)

\* C25 witness: an insect that was falling has been put back into the grass
\* by a frame
C25_Witness ==
    /\ state = "forest"
    /\ lastOp.op = "frame"
    /\ \E i \in BugSet :
          /\ bugs[i].y = 66 * canvas.height + 1800
          /\ bugs[i].drawSize = DRAW_SIZE
    /\ \E i \in BugSet : bugs[i].vy > 0

\* C26: whenever the state is forest, every insect has the colour that the
\* current location's theme resolves for its type, also right after a
\* location was selected on the map.
C26_InsectColourFollowsLocation ==
    state = "forest" =>
        \A i \in BugSet : bugs[i].color = Tint(currentLocation, bugs[i].type)

====
